---------------------------- MODULE Spec2Model ----------------------------
(***************************************************************************)
(* Verification model of mitee-lqr's controller.c: the time-varying LQR    *)
(* pipeline updateSensors -> computeBMatrices -> computePMatrix ->         *)
(* computeGainMatrix -> sendMTInputs.                                      *)
(*                                                                         *)
(* Two value domains are used.                                             *)
(*  - Numeric: a double is a fixed-point number, ONE units per 1.0, or the *)
(*    non-finite value NaN.  The Newton iteration, the convergence test,   *)
(*    invert, the extraction of P and the command u = -K.x are computed    *)
(*    in this domain.                                                      *)
(*  - Symbolic: the program's own constants (1e-7 .. 1e7) do not fit one   *)
(*    fixed-point scale, so in the pipeline specifications a matrix is the *)
(*    term of GSL operations that produced it.                             *)
(***************************************************************************)
EXTENDS Integers, Sequences, FiniteSets, TLC

VARIABLES
  H, S, S_prev, S_inverse, H_squared, X1_inverse, P,  \* numeric solver state
  nrpc, iter, calls,                                  \* position in computePMatrix
  K, x, u, magnetorquer, mtpc,                        \* numeric command application
  cntl,       \* the Controller the periodic driver owns
  mem,        \* every function-local static matrix (shared by all invocations)
  mode,       \* "cycle": the driver runs the pipeline in order; "any": any call order
  done,       \* the function that returned last
  ops,        \* calls made so far
  bHist,      \* history: the field vectors computeBMatrices was called with
  tcntl, tpc, \* two interleaved invocations: their Controllers and positions
  overlap     \* history: a statement ran while the other invocation was inside a function

nrvars == <<H, S, S_prev, S_inverse, H_squared, X1_inverse, P, nrpc, iter, calls>>

mtvars == <<K, x, u, magnetorquer, mtpc>>

seqvars == <<cntl, mode, done, ops, bHist>>

concvars == <<tcntl, tpc, overlap>>

vars == <<nrvars, mtvars, seqvars, mem, concvars>>

-----------------------------------------------------------------------------
(* Bounds of the model *)

\* half the order of the Hamiltonian matrix (6 in the program: H is 12 x 12)
HalfDim == 1
\* solver invocations (control cycles) per run of the numeric specification
MaxCalls == 2
\* the count of Newton steps saturates here; the loop itself has no bound
MaxIter == 100

-----------------------------------------------------------------------------
(* Doubles as fixed-point numbers *)

\* units per 1.0: NR_TOLERANCE (1e-3) is the resolution
ONE == 1000
\* #define NR_TOLERANCE 1e-3, in units
NR_TOLERANCE == 1
\* a non-finite double (+-inf and NaN are not told apart)
NaN == 1000000000

IsNaN(a) == a = NaN

Abs(a) == IF a < 0 THEN -a ELSE a

\* round a product of two fixed-point numbers back to units, half away from zero
Rnd(p) == IF p >= 0 THEN (p + ONE \div 2) \div ONE ELSE -((-p + ONE \div 2) \div ONE)

Add(a, b) == IF IsNaN(a) \/ IsNaN(b) THEN NaN ELSE a + b

Sub(a, b) == IF IsNaN(a) \/ IsNaN(b) THEN NaN ELSE a - b

Mul(a, b) == IF IsNaN(a) \/ IsNaN(b) THEN NaN ELSE Rnd(a * b)

\* a / b; x / 0 is +-inf or NaN
Div(a, b) ==
  IF IsNaN(a) \/ IsNaN(b) \/ b = 0 THEN NaN
  ELSE IF (a >= 0) = (b > 0) THEN (2 * Abs(a) * ONE + Abs(b)) \div (2 * Abs(b))
  ELSE -((2 * Abs(a) * ONE + Abs(b)) \div (2 * Abs(b)))

\* fabs(a - b) > tol; every comparison with NaN is false
FabsDiffGreater(a, b, tol) == ~IsNaN(Sub(a, b)) /\ Abs(Sub(a, b)) > tol

-----------------------------------------------------------------------------
(* Dense matrices: a matrix is the sequence of its rows *)

Rows(M) == Len(M)

Cols(M) == Len(M[1])

\* the matrix M with every row and entry evaluated (a stored array, not an expression)
Dense(M) == [i \in 1..Len(M) |-> M[i] \o <<>>] \o <<>>

IdentityEntry(i, j) == IF i = j THEN ONE ELSE 0

\* gsl_matrix_set_identity on an n x n matrix
SetIdentity(n) == Dense([i \in 1..n |-> [j \in 1..n |-> IdentityEntry(i, j)]])

\* an r x c matrix with every entry v
Filled(r, c, v) == Dense([i \in 1..r |-> [j \in 1..c |-> v]])

HasNaN(M) == \E i \in 1..Rows(M) : \E j \in 1..Cols(M) : IsNaN(M[i][j])

RECURSIVE SumTerms(_, _, _)
\* sum over k = 1..n of term[k], accumulated as the BLAS loops do
SumTerms(term, n, acc) == IF n = 0 THEN acc ELSE SumTerms(term, n - 1, Add(acc, term[n]))

\* one product term of gsl_blas_dgemm: temp = alpha * A[i][k]; skipped when temp == 0
GemmTerm(alpha, a, b) ==
  LET temp == Mul(alpha, a) IN IF temp = 0 THEN 0 ELSE Mul(temp, b)

\* gsl_blas_dgemm(NoTrans, NoTrans, alpha, A, B, beta, C): C = alpha*A*B + beta*C;
\* with beta == 0 the old contents of C are not read
dgemm(alpha, A, B, beta, C) ==
  Dense([i \in 1..Rows(A) |-> [j \in 1..Cols(B) |->
     SumTerms([k \in 1..Cols(A) |-> GemmTerm(alpha, A[i][k], B[k][j])], Cols(A),
              IF beta = 0 THEN 0 ELSE Mul(beta, C[i][j]))]])

\* gsl_matrix_sub(A, B): A -= B
matrix_sub(A, B) ==
  Dense([i \in 1..Rows(A) |-> [j \in 1..Cols(A) |-> Sub(A[i][j], B[i][j])]])

\* gsl_matrix_submatrix(M, r0, c0, n1, n2), with r0, c0 counted from 0 as in C
submatrix(M, r0, c0, n1, n2) ==
  Dense([i \in 1..n1 |-> [j \in 1..n2 |-> M[r0 + i][c0 + j]]])

-----------------------------------------------------------------------------
(* invert: LU decomposition with partial pivoting, then inversion *)

\* row of the pivot gsl_linalg_LU_decomp picks in column c: the first of largest |.|
PivotRow(A, c, n) ==
  CHOOSE r \in c..n : \A q \in c..n :
     Abs(A[r][c]) > Abs(A[q][c]) \/ (Abs(A[r][c]) = Abs(A[q][c]) /\ r <= q)

SwapRows(A, r1, r2) ==
  Dense([i \in 1..Len(A) |-> IF i = r1 THEN A[r2] ELSE IF i = r2 THEN A[r1] ELSE A[i]])

\* eliminate column c of the augmented matrix A = [M | I] with pivot row c
Eliminate(A, c) ==
  LET piv  == A[c][c]
      prow == [j \in 1..Len(A[c]) |-> Div(A[c][j], piv)] \o <<>>
  IN Dense([i \in 1..Len(A) |->
        IF i = c THEN prow
        ELSE [j \in 1..Len(A[i]) |-> Sub(A[i][j], Mul(A[i][c], prow[j]))]])

RECURSIVE Reduce(_, _, _)
\* columns c..n of the elimination; singular when a pivot is exactly zero
Reduce(A, c, n) ==
  IF c > n THEN [singular |-> FALSE, m |-> A]
  ELSE LET p == PivotRow(A, c, n)
       IN IF A[p][c] = 0 THEN [singular |-> TRUE, m |-> A]
          ELSE Reduce(Eliminate(SwapRows(A, c, p), c), c + 1, n)

\* gsl_linalg_LU_decomp + gsl_linalg_LU_invert.  A non-finite entry fails every
\* pivot comparison and is never == 0: the result is non-finite, not an error.
LU_invert(mat) ==
  LET n == Rows(mat)
  IN IF HasNaN(mat) THEN [singular |-> FALSE, m |-> Filled(n, n, NaN)]
     ELSE LET aug == Dense([i \in 1..n |-> mat[i] \o [j \in 1..n |-> IdentityEntry(i, j)]])
              red == Reduce(aug, 1, n)
          IN [singular |-> red.singular,
              m |-> Dense([i \in 1..n |-> [j \in 1..n |-> red.m[i][n + j]]])]

\* invert(mat, inv): void, the status of gsl_linalg_LU_invert is dropped.  On a
\* singular matrix GSL raises GSL_EDOM through its error handler, which the program
\* leaves at the default: abort().  aborted = TRUE: the process is gone.
invert(mat, inv) ==
  LET r == LU_invert(mat)
  IN IF r.singular THEN [aborted |-> TRUE, inv |-> inv]
     ELSE [aborted |-> FALSE, inv |-> r.m]

-----------------------------------------------------------------------------
(* computePMatrix from the Hamiltonian on, on numbers *)

\* order of H, S, S_prev, S_inverse, H_squared (12 in the program)
Dim == 2 * HalfDim

\* the block matrix [[a*I, b*I], [c*I, d*I]] with HalfDim x HalfDim blocks
HBlock(a, b, c, d) ==
  Dense([i \in 1..Dim |-> [j \in 1..Dim |->
     IF (i - 1) % HalfDim # (j - 1) % HalfDim THEN 0
     ELSE IF i <= HalfDim THEN (IF j <= HalfDim THEN a ELSE b)
     ELSE (IF j <= HalfDim THEN c ELSE d)]])

\* Hamiltonian matrices handed to the solver (line 238), in units:
\*   -H stable, H = I, H = I + 0.001*E, H^2 = -3I, H^2 = -I, non-finite H
HInputs ==
  { HBlock(-2 * ONE, 0, ONE, -3 * ONE),
    HBlock(ONE, 0, 0, ONE),
    HBlock(ONE, NR_TOLERANCE, 0, ONE),
    HBlock(0, -3 * ONE, ONE, 0),
    HBlock(0, -ONE, ONE, 0),
    HBlock(-ONE, 0, 2 * ONE, -ONE),
    Filled(Dim, Dim, NaN) }

\* what gsl_matrix_alloc may hand back: memory that was never written
Uninitialized == { Filled(Dim, Dim, 0), Filled(Dim, Dim, 7 * ONE) }

\* variant: S keeps the value the previous invocation left (a warm start)
NRSeed_warm(s) == s

\* line 274: gsl_matrix_set_identity(S)
NRSeed(s) == SetIdentity(Dim)

\* variant: an entry whose difference equals the tolerance is not converged
newtonRaphsonConverged_strict(s, sprev) ==
  ~ \E i \in 1..Dim : \E j \in 1..Dim :
       FabsDiffGreater(s[i][j], sprev[i][j], NR_TOLERANCE - 1)

\* newtonRaphsonConverged: false as soon as one entry differs by more than the tolerance
newtonRaphsonConverged(s, sprev) ==
  ~ \E i \in 1..Dim : \E j \in 1..Dim : FabsDiffGreater(s[i][j], sprev[i][j], NR_TOLERANCE)

\* the numeric solver state when a specification does not run it
ParkNR ==
  /\ H = <<>> /\ S = <<>> /\ S_prev = <<>> /\ S_inverse = <<>> /\ H_squared = <<>>
  /\ X1_inverse = <<>> /\ P = <<>> /\ nrpc = "off" /\ iter = 0 /\ calls = 0

\* the command application state when a specification does not run it
ParkMT ==
  /\ K = <<>> /\ x = <<>> /\ u = <<>> /\ magnetorquer = <<>> /\ mtpc = "off"

\* the pipeline state when a specification does not run it
ParkPipeline ==
  /\ cntl = <<>> /\ mem = <<>> /\ mode = "off" /\ done = "off" /\ ops = 0 /\ bHist = <<>>
  /\ tcntl = <<>> /\ tpc = <<>> /\ overlap = FALSE

InitNR ==
  /\ ParkMT
  /\ ParkPipeline
  /\ H = Filled(Dim, Dim, 0)
  /\ S \in Uninitialized
  /\ S_prev \in Uninitialized
  /\ S_inverse = Filled(Dim, Dim, 0)
  /\ H_squared = Filled(Dim, Dim, 0)
  /\ X1_inverse = Filled(HalfDim, HalfDim, 0)
  /\ P = Filled(HalfDim, HalfDim, 0)
  /\ nrpc = "idle"
  /\ iter = 0
  /\ calls = 0

\* computePMatrix has formed H (line 238) and enters runNewtonRaphsonProcess up to
\* the loop: S = identity, H_squared = H * H
runNewtonRaphsonProcess_enter ==
  /\ nrpc \in {"idle", "returned"}
  /\ calls < MaxCalls
  /\ \E h \in HInputs :
       /\ H' = h
       /\ S' = NRSeed(S)
       /\ H_squared' = dgemm(ONE, h, h, 0, H_squared)
  /\ iter' = 0
  /\ calls' = calls + 1
  /\ nrpc' = "loop"
  /\ UNCHANGED <<S_prev, S_inverse, X1_inverse, P, mtvars, seqvars, mem, concvars>>

\* lines 281-282 of the do-while body: S_prev = S; invert(S, S_inverse)
runNewtonRaphsonProcess_invert ==
  /\ nrpc = "loop"
  /\ LET inv == invert(S, S_inverse)
     IN /\ S_prev' = S
        /\ S_inverse' = inv.inv
        /\ nrpc' = IF inv.aborted THEN "aborted" ELSE "step"
  /\ iter' = IF iter < MaxIter THEN iter + 1 ELSE iter
  /\ UNCHANGED <<H, S, H_squared, X1_inverse, P, calls, mtvars, seqvars, mem, concvars>>

\* line 283, S = 0.5 * S_inverse * H_squared + 0.5 * S, and the test of line 286
runNewtonRaphsonProcess_step ==
  /\ nrpc = "step"
  /\ S' = dgemm(ONE \div 2, S_inverse, H_squared, ONE \div 2, S)
  /\ nrpc' = IF newtonRaphsonConverged(S', S_prev) THEN "extract" ELSE "loop"
  /\ UNCHANGED <<H, S_prev, S_inverse, H_squared, X1_inverse, P, iter, calls, mtvars,
               seqvars, mem, concvars>>

\* lines 246-253: H -= S; X1, X2 = left blocks of H; P = X2 * X1^-1
computePMatrix_extract ==
  /\ nrpc = "extract"
  /\ LET HmS == matrix_sub(H, S)
         X1  == submatrix(HmS, 0, 0, HalfDim, HalfDim)
         X2  == submatrix(HmS, HalfDim, 0, HalfDim, HalfDim)
         inv == invert(X1, X1_inverse)
     IN /\ H' = HmS
        /\ X1_inverse' = inv.inv
        /\ P' = IF inv.aborted THEN P ELSE dgemm(ONE, X2, inv.inv, 0, P)
        /\ nrpc' = IF inv.aborted THEN "aborted" ELSE "returned"
  /\ UNCHANGED <<S, S_prev, S_inverse, H_squared, iter, calls, mtvars, seqvars, mem, concvars>>

NextNR ==
  \/ runNewtonRaphsonProcess_enter
  \/ runNewtonRaphsonProcess_invert
  \/ runNewtonRaphsonProcess_step
  \/ computePMatrix_extract

SpecNR == InitNR /\ [][NextNR]_vars

(* ---- claims about the numeric solver ---- *)

\* the left upper block of H - S that line 251 hands to invert
X1Block == submatrix(matrix_sub(H, S), 0, 0, HalfDim, HalfDim)

\* C2 (as claimed): when the inversion of X1 meets a singular matrix, computePMatrix
\* comes back to its caller with a SingularMatrixError and P is not written.
C2_SingularSurfaced ==
  [][(nrpc = "extract" /\ LU_invert(X1Block).singular)
        => (nrpc' = "SingularMatrixError" /\ P' = P)]_vars

\* C3 (as claimed): the loop runs within an iteration budget: once MaxIter Newton
\* steps have been taken without meeting the tolerance, the invocation ends with
\* a ConvergenceError instead of taking another step.
C3_BoundedIterations ==
  [][(nrpc = "loop" /\ iter >= MaxIter) => nrpc' = "ConvergenceError"]_vars

\* C4: the first Newton step of every invocation starts from S = identity: S is the
\* identity when the loop is entered, and the S_k the first step copies to S_prev
\* is the identity, whatever S held before the call.
C4_SeededAtIdentity ==
  /\ (nrpc = "loop" /\ iter = 0) => S = SetIdentity(Dim)
  /\ (nrpc \in {"step", "loop", "extract", "aborted"} /\ iter = 1) => S_prev = SetIdentity(Dim)

\* a later invocation has taken its first step from the identity and moved away
C4_Witness ==
  /\ calls >= 2 /\ nrpc = "loop" /\ iter = 1
  /\ S_prev = SetIdentity(Dim) /\ S # SetIdentity(Dim)

\* some entry of S - S_prev is finite and larger in absolute value than the tolerance
SomeEntryExceeds ==
  \E i \in 1..Dim : \E j \in 1..Dim :
     /\ ~IsNaN(S[i][j]) /\ ~IsNaN(S_prev[i][j])
     /\ (S[i][j] - S_prev[i][j] > NR_TOLERANCE \/ S_prev[i][j] - S[i][j] > NR_TOLERANCE)

\* C9 (amended): at least one Newton step is taken, and the loop stops after a step
\* exactly when no entry of S_{k+1} - S_k is larger in absolute value than
\* NR_TOLERANCE: a difference equal to the tolerance counts as converged.
C9_StopsWhenNoEntryExceeds ==
  /\ nrpc = "extract" => (iter >= 1 /\ ~SomeEntryExceeds)
  /\ (nrpc = "loop" /\ iter >= 1) => SomeEntryExceeds

\* the loop has stopped with an entry whose difference equals the tolerance
C9_Witness ==
  /\ nrpc = "extract"
  /\ \E i \in 1..Dim : \E j \in 1..Dim :
        ~IsNaN(S[i][j]) /\ Abs(S[i][j] - S_prev[i][j]) = NR_TOLERANCE

\* C9 (as claimed): the loop stops only when every finite difference is strictly
\* below the tolerance.
C9_StopsOnlyBelowTolerance ==
  nrpc = "extract" =>
     \A i \in 1..Dim : \A j \in 1..Dim :
        IsNaN(S[i][j]) \/ Abs(S[i][j] - S_prev[i][j]) < NR_TOLERANCE

-----------------------------------------------------------------------------
(* sendMTInputs on numbers *)

\* rows of K and entries of u: gsl_matrix_alloc(3, 6), gsl_vector_alloc(3)
NumInputs == 3
\* columns of K and entries of x: gsl_vector_alloc(6)
NumStates == 6

\* gsl_blas_dgemv(NoTrans, alpha, A, x, beta, y): y = alpha*A*x + beta*y; with
\* beta == 0 the old y is not read; no term of the row sum is skipped
dgemv(alpha, A, xv, beta, y) ==
  [i \in 1..Rows(A) |->
     Add(IF beta = 0 THEN 0 ELSE Mul(beta, y[i]),
         Mul(alpha, SumTerms([j \in 1..Cols(A) |-> Mul(xv[j], A[i][j])], Cols(A), 0)))] \o <<>>

\* a vector of n entries v
FilledVector(n, v) == [i \in 1..n |-> v] \o <<>>

\* the vector of n entries with v at place k and 0 elsewhere
UnitVector(n, k, v) == [i \in 1..n |-> IF i = k THEN v ELSE 0] \o <<>>

\* gains: zero, uniform, one with distinct rows, and the non-finite gain that a cycle
\* with b = (0,0,0) leaves in K
KInputs ==
  { Filled(NumInputs, NumStates, 0),
    Filled(NumInputs, NumStates, ONE),
    Filled(NumInputs, NumStates, -2 * ONE),
    Dense([i \in 1..NumInputs |-> [j \in 1..NumStates |-> (i - 2) * ONE + j]]),
    Filled(NumInputs, NumStates, NaN) }

\* states: the equilibrium, and deviations in one coordinate
XInputs ==
  { FilledVector(NumStates, 0),
    UnitVector(NumStates, 1, ONE),
    UnitVector(NumStates, 5, 1),
    UnitVector(NumStates, 6, -3 * ONE),
    UnitVector(NumStates, 3, -ONE),
    FilledVector(NumStates, -ONE),
    FilledVector(NumStates, 2 * ONE) }

\* what u may hold before the call
UInputs ==
  { FilledVector(NumInputs, 0), FilledVector(NumInputs, 7 * ONE), FilledVector(NumInputs, NaN) }

InitMT ==
  /\ ParkNR
  /\ ParkPipeline
  /\ K \in KInputs
  /\ x \in XInputs
  /\ u \in UInputs
  /\ magnetorquer = <<>>
  /\ mtpc = "ready"

\* sendMTInputs: u = -K*x, then setMagnetorquer(u[0], u[1], u[2])
sendMTInputs_num ==
  /\ mtpc = "ready"
  /\ u' = dgemv(-ONE, K, x, 0, u)
  /\ magnetorquer' = <<u'[1], u'[2], u'[3]>>
  /\ mtpc' = "sent"
  /\ UNCHANGED <<K, x, nrvars, seqvars, mem, concvars>>

NextMT == sendMTInputs_num

SpecMT == InitMT /\ [][NextMT]_vars

(* ---- claims about the command application ---- *)

\* C8 (as claimed): for every gain K, with x = 0 sendMTInputs leaves u = (0,0,0) and
\* hands exactly (0,0,0) to the actuator.
C8_ZeroStateZeroCommand ==
  (mtpc = "sent" /\ x = FilledVector(NumStates, 0)) =>
     (u = FilledVector(NumInputs, 0) /\ magnetorquer = <<0, 0, 0>>)

\* for a gain with finite entries the zero state gives the zero command, and the
\* actuator always gets u as stored
C8_FiniteGainZeroCommand ==
  mtpc = "sent" =>
     /\ magnetorquer = <<u[1], u[2], u[3]>>
     /\ (x = FilledVector(NumStates, 0) /\ ~HasNaN(K)) => u = FilledVector(NumInputs, 0)

-----------------------------------------------------------------------------
(* The pipeline on matrix terms.

   The matrices of the program hold entries between 1e-7 and 1e7 and go through
   inversions and a matrix exponential, so the pipeline is modelled on terms: a
   matrix is <<operation, operands, data>>, the expression the code computed it
   with.  Two matrices are equal as terms exactly when the code computed them by
   the same operations from the same inputs.  The field vector b, the state x and
   the entries of bmat stay integers. *)

Leaf(name) == <<name, <<>>, <<>>>>

Op(name, args) == <<name, args, <<>>>>

Data(name, d) == <<name, <<>>, d>>

\* a static pointer before the first call
NullPtr == Leaf("NULL")

\* a block from gsl_matrix_alloc / gsl_vector_alloc: its contents are not initialised
gsl_matrix_alloc(n1, n2) == Data("alloc", <<n1, n2>>)

gsl_vector_alloc(n) == Data("alloc", <<n>>)

\* the double num/den
Scalar(num, den) == Data("scalar", <<num, den>>)

\* a vector or a row-major matrix of known numbers used as an operand
Numbers(d) == Data("numbers", d)

gsl_matrix_memcpy(src) == src

gsl_matrix_transpose_memcpy(src) == Op("transpose", <<src>>)

gsl_matrix_scale(a, k) == Op("scale", <<k, a>>)

gsl_matrix_add(a, b) == Op("add", <<a, b>>)

gsl_matrix_sub(a, b) == Op("sub", <<a, b>>)

gsl_matrix_set_identity(n) == Data("identity", <<n>>)

gsl_matrix_set_zero(n) == Data("zero", <<n>>)

gsl_matrix_submatrix(m, i, j, n1, n2) == <<"submatrix", <<m>>, <<i, j, n1, n2>>>>

gsl_linalg_exponential_ss(a) == Op("exponential", <<a>>)

gsl_vector_get(v, i) == <<"get", <<v>>, <<i>>>>

gsl_blas_ddot(a, b) == a[1] * b[1] + a[2] * b[2] + a[3] * b[3]

\* C = alpha*op(A)*op(B) + beta*C; the old C is read only when beta is not 0
gsl_blas_dgemm(TransA, TransB, alpha, A, B, beta, C) ==
  LET opA == IF TransA = "Trans" THEN Op("transpose", <<A>>) ELSE A
      opB == IF TransB = "Trans" THEN Op("transpose", <<B>>) ELSE B
  IN  IF beta = Scalar(0, 1) THEN Op("dgemm", <<alpha, opA, opB>>)
      ELSE Op("dgemm", <<alpha, opA, opB, beta, C>>)

\* y = alpha*A*x + beta*y
gsl_blas_dgemv(alpha, A, xv, beta, y) ==
  IF beta = Scalar(0, 1) THEN Op("dgemv", <<alpha, A, xv>>)
  ELSE Op("dgemv", <<alpha, A, xv, beta, y>>)

\* what invert(mat, inv) leaves in inv
inverse(mat) == Op("inverse", <<mat>>)

concatenate2x2(a, b, c, d) == Op("concatenate2x2", <<a, b, c, d>>)

concatenate_vertical(a, b) == Op("concatenate_vertical", <<a, b>>)

RECURSIVE Mentions(_, _)
\* the term t has a subterm with operation name
Mentions(t, name) == t[1] = name \/ \E i \in 1..Len(t[2]) : Mentions(t[2][i], name)

RECURSIVE DividesByZero(_)
\* the term t was computed with a scalar whose denominator is 0
DividesByZero(t) ==
  \/ (t[1] = "scalar" /\ t[3][2] = 0)
  \/ \E i \in 1..Len(t[2]) : DividesByZero(t[2][i])

\* discrete time step, in seconds
DT == 4
\* mean motion, in the unit of the state vector (1e-3 rad/s)
MEAN_MOTION == 1

\* the Controller at the end of initializeController; x, u, b, bmat, B_c, B_d, P and
\* K are allocated and not written
initializeController ==
  [ A_c    |-> Leaf("A_c"),
    A_d    |-> gsl_linalg_exponential_ss(
                 gsl_matrix_scale(gsl_matrix_memcpy(Leaf("A_c")), Scalar(DT, 1))),
    Q      |-> Leaf("Q"),
    R      |-> Leaf("R"),
    J      |-> Leaf("J"),
    x      |-> <<0, 0, 0, 0, 0, 0>>,
    u      |-> gsl_vector_alloc(3),
    b      |-> <<0, 0, 0>>,
    bmat   |-> gsl_matrix_alloc(3, 3),
    B_c    |-> gsl_matrix_alloc(6, 3),
    B_d    |-> gsl_matrix_alloc(6, 3),
    P      |-> gsl_matrix_alloc(6, 6),
    K      |-> gsl_matrix_alloc(3, 6),
    I_6    |-> gsl_matrix_set_identity(6),
    Zero_6 |-> gsl_matrix_set_zero(6),
    Zero_3 |-> gsl_matrix_set_zero(3) ]

\* every function-local static pointer starts NULL
StaticsAtStart ==
  [ J_inv |-> NullPtr, quotient |-> NullPtr, J_inv_quotient |-> NullPtr,
    A_c_inv |-> NullPtr, I_minus_A_d |-> NullPtr, transform |-> NullPtr,
    negativeQ |-> NullPtr, N |-> NullPtr, R_inverse |-> NullPtr, Rinv_BdT |-> NullPtr,
    Bd_Rinv_BdT |-> NullPtr, A_d_transpose |-> NullPtr, L |-> NullPtr,
    N_plus_L |-> NullPtr, N_plus_L_inverse |-> NullPtr, N_minus_L |-> NullPtr,
    H |-> NullPtr, S |-> NullPtr, X1_inverse |-> NullPtr,
    S_prev |-> NullPtr, S_inverse |-> NullPtr, H_squared |-> NullPtr,
    P_Ad |-> NullPtr, BdT_P_Ad |-> NullPtr, P_Bd |-> NullPtr, BdT_P_Bd |-> NullPtr,
    R_plus_BdT_P_Bd |-> NullPtr, R_plus_BdT_P_Bd_inv |-> NullPtr ]

(* The statements of the functions act on s = [c |-> a Controller, m |-> the statics]. *)

(* ---- computeBMatrices ---- *)

computeBMatrices_firstCall(s) == s.m.J_inv = NullPtr

\* variant: the guard pointer J_inv is assigned only when the constants are stored
computeBMatrices_alloc_publish_last(s) ==
  [s EXCEPT !.m.quotient = gsl_matrix_alloc(3, 3),
            !.m.J_inv_quotient = gsl_matrix_alloc(3, 3),
            !.m.A_c_inv = gsl_matrix_alloc(6, 6),
            !.m.I_minus_A_d = gsl_matrix_alloc(6, 6),
            !.m.transform = gsl_matrix_alloc(6, 6)]

computeBMatrices_alloc(s) ==
  [s EXCEPT !.m.J_inv = gsl_matrix_alloc(3, 3),
            !.m.quotient = gsl_matrix_alloc(3, 3),
            !.m.J_inv_quotient = gsl_matrix_alloc(3, 3),
            !.m.A_c_inv = gsl_matrix_alloc(6, 6),
            !.m.I_minus_A_d = gsl_matrix_alloc(6, 6),
            !.m.transform = gsl_matrix_alloc(6, 6)]

computeBMatrices_constants(s) ==
  LET A_c_inv == inverse(s.c.A_c)
      I_minus_A_d == gsl_matrix_sub(gsl_matrix_set_identity(6), s.c.A_d)
  IN  [s EXCEPT !.m.J_inv = inverse(s.c.J),
                !.m.A_c_inv = A_c_inv,
                !.m.I_minus_A_d = I_minus_A_d,
                !.m.transform = gsl_blas_dgemm("NoTrans", "NoTrans", Scalar(-1, 1), A_c_inv,
                                               I_minus_A_d, Scalar(0, 1), s.m.transform)]

\* variant of the array: the entry in row 3, column 1 has the wrong sign
bmatArray_wrong_sign(b) == <<0, -b[3], b[2],  b[3], 0, -b[1],  b[2], b[1], 0>>

\* the array bmat[] built from b1, b2, b3, row by row
bmatArray(b) == <<0, -b[3], b[2],  b[3], 0, -b[1],  -b[2], b[1], 0>>

\* bmat, bT_b and quotient = (1/bT_b) * bmat * bmat
computeBMatrices_quotient(s) ==
  LET bm == Numbers(bmatArray(s.c.b))
      bT_b == gsl_blas_ddot(s.c.b, s.c.b)
  IN  [s EXCEPT !.c.bmat = bm,
                !.m.quotient = gsl_blas_dgemm("NoTrans", "NoTrans", Scalar(1, bT_b), bm, bm,
                                              Scalar(0, 1), s.m.quotient)]

\* J_inv_quotient and B_c
computeBMatrices_Bc(s) ==
  LET J_inv_quotient == gsl_blas_dgemm("NoTrans", "NoTrans", Scalar(1, 1), s.m.J_inv,
                                       s.m.quotient, Scalar(0, 1), s.m.J_inv_quotient)
  IN  [s EXCEPT !.m.J_inv_quotient = J_inv_quotient,
                !.c.B_c = concatenate_vertical(s.c.Zero_3, J_inv_quotient)]

computeBMatrices_Bd(s) ==
  [s EXCEPT !.c.B_d = gsl_blas_dgemm("NoTrans", "NoTrans", Scalar(1, 1), s.m.transform,
                                     s.c.B_c, Scalar(0, 1), s.c.B_d)]

computeBMatrices(s) ==
  computeBMatrices_Bd(computeBMatrices_Bc(computeBMatrices_quotient(
    IF computeBMatrices_firstCall(s)
    THEN computeBMatrices_constants(computeBMatrices_alloc(s)) ELSE s)))

(* ---- computePMatrix and runNewtonRaphsonProcess ---- *)

computePMatrix_firstCall(s) == s.m.negativeQ = NullPtr

computePMatrix_alloc(s) ==
  [s EXCEPT !.m.negativeQ = gsl_matrix_alloc(6, 6),
            !.m.N = gsl_matrix_alloc(12, 12),
            !.m.R_inverse = gsl_matrix_alloc(3, 3),
            !.m.Rinv_BdT = gsl_matrix_alloc(3, 6),
            !.m.Bd_Rinv_BdT = gsl_matrix_alloc(6, 6),
            !.m.A_d_transpose = gsl_matrix_alloc(6, 6),
            !.m.L = gsl_matrix_alloc(12, 12),
            !.m.N_plus_L = gsl_matrix_alloc(12, 12),
            !.m.N_plus_L_inverse = gsl_matrix_alloc(12, 12),
            !.m.N_minus_L = gsl_matrix_alloc(12, 12),
            !.m.H = gsl_matrix_alloc(12, 12),
            !.m.S = gsl_matrix_alloc(12, 12),
            !.m.X1_inverse = gsl_matrix_alloc(6, 6)]

\* variant: Q is negated in place instead of in the copy negativeQ
computePMatrix_constants_in_place(s) ==
  LET negativeQ == gsl_matrix_scale(s.c.Q, Scalar(-1, 1))
  IN  [s EXCEPT !.c.Q = negativeQ,
                !.m.negativeQ = negativeQ,
                !.m.N = concatenate2x2(s.c.A_d, s.c.Zero_6, negativeQ, s.c.I_6),
                !.m.R_inverse = inverse(s.c.R),
                !.m.A_d_transpose = gsl_matrix_transpose_memcpy(s.c.A_d)]

computePMatrix_constants(s) ==
  LET negativeQ == gsl_matrix_scale(gsl_matrix_memcpy(s.c.Q), Scalar(-1, 1))
  IN  [s EXCEPT !.m.negativeQ = negativeQ,
                !.m.N = concatenate2x2(s.c.A_d, s.c.Zero_6, negativeQ, s.c.I_6),
                !.m.R_inverse = inverse(s.c.R),
                !.m.A_d_transpose = gsl_matrix_transpose_memcpy(s.c.A_d)]

\* Rinv_BdT, Bd_Rinv_BdT and L
computePMatrix_L(s) ==
  LET Rinv_BdT == gsl_blas_dgemm("NoTrans", "Trans", Scalar(1, 1), s.m.R_inverse, s.c.B_d,
                                 Scalar(0, 1), s.m.Rinv_BdT)
      Bd_Rinv_BdT == gsl_blas_dgemm("NoTrans", "NoTrans", Scalar(1, 1), s.c.B_d, Rinv_BdT,
                                    Scalar(0, 1), s.m.Bd_Rinv_BdT)
  IN  [s EXCEPT !.m.Rinv_BdT = Rinv_BdT,
                !.m.Bd_Rinv_BdT = Bd_Rinv_BdT,
                !.m.L = concatenate2x2(s.c.I_6, Bd_Rinv_BdT, s.c.Zero_6, s.m.A_d_transpose)]

\* N_plus_L, its inverse, and N_minus_L
computePMatrix_NL(s) ==
  LET N_plus_L == gsl_matrix_add(gsl_matrix_memcpy(s.m.N), s.m.L)
  IN  [s EXCEPT !.m.N_plus_L = N_plus_L,
                !.m.N_plus_L_inverse = inverse(N_plus_L),
                !.m.N_minus_L = gsl_matrix_sub(gsl_matrix_memcpy(s.m.N), s.m.L)]

computePMatrix_H(s) ==
  [s EXCEPT !.m.H = gsl_blas_dgemm("NoTrans", "NoTrans", Scalar(1, 1), s.m.N_plus_L_inverse,
                                   s.m.N_minus_L, Scalar(0, 1), s.m.H)]

\* variant: the iteration starts from what S holds
NewtonSeed_previous(Sold) == Sold

\* the S the iteration starts from
NewtonSeed(Sold) == gsl_matrix_set_identity(12)

\* Newton steps the loop runs on terms.  The count the code runs is decided by
\* newtonRaphsonConverged from S and S_prev alone, which the terms do not evaluate
\* (SpecNR does, on numbers).
NewtonSteps == 2

\* one pass of the loop body: S_prev = S; S_inverse = S^-1;
\* S = 0.5 * S_inverse * H_squared + 0.5 * S
runNewtonRaphsonProcess_body(a) ==
  LET Sk == a.m.S
      Sinv == inverse(Sk)
  IN  [a EXCEPT !.m.S_prev = gsl_matrix_memcpy(Sk),
                !.m.S_inverse = Sinv,
                !.m.S = gsl_blas_dgemm("NoTrans", "NoTrans", Scalar(1, 2), Sinv,
                                       a.m.H_squared, Scalar(1, 2), Sk)]

RECURSIVE runNewtonRaphsonProcess_loop(_, _)
\* n passes of the loop body
runNewtonRaphsonProcess_loop(a, n) ==
  IF n = 0 THEN a
  ELSE runNewtonRaphsonProcess_loop(runNewtonRaphsonProcess_body(a), n - 1)

\* runNewtonRaphsonProcess(H, S): first-call allocation, the seed, H_squared, the loop
runNewtonRaphsonProcess(s) ==
  LET a == IF s.m.S_prev = NullPtr
           THEN [s EXCEPT !.m.S_prev = gsl_matrix_alloc(12, 12),
                          !.m.S_inverse = gsl_matrix_alloc(12, 12),
                          !.m.H_squared = gsl_matrix_alloc(12, 12)]
           ELSE s
  IN  runNewtonRaphsonProcess_loop(
        [a EXCEPT !.m.S = NewtonSeed(a.m.S),
                  !.m.H_squared = gsl_blas_dgemm("NoTrans", "NoTrans", Scalar(1, 1), a.m.H,
                                                 a.m.H, Scalar(0, 1), a.m.H_squared)],
        NewtonSteps)

\* H -= S, X1, X2, X1_inverse and P
computePMatrix_P(s) ==
  LET HminusS == gsl_matrix_sub(s.m.H, s.m.S)
      X1_inv == inverse(gsl_matrix_submatrix(HminusS, 0, 0, 6, 6))
  IN  [s EXCEPT !.m.H = HminusS,
                !.m.X1_inverse = X1_inv,
                !.c.P = gsl_blas_dgemm("NoTrans", "NoTrans", Scalar(1, 1),
                                       gsl_matrix_submatrix(HminusS, 6, 0, 6, 6), X1_inv,
                                       Scalar(0, 1), s.c.P)]

computePMatrix(s) ==
  computePMatrix_P(runNewtonRaphsonProcess(computePMatrix_H(computePMatrix_NL(
    computePMatrix_L(
      IF computePMatrix_firstCall(s)
      THEN computePMatrix_constants(computePMatrix_alloc(s)) ELSE s)))))

(* ---- computeGainMatrix and sendMTInputs ---- *)

computeGainMatrix(s) ==
  LET a == IF s.m.P_Ad = NullPtr
           THEN [s EXCEPT !.m.P_Ad = gsl_matrix_alloc(6, 6),
                          !.m.BdT_P_Ad = gsl_matrix_alloc(3, 6),
                          !.m.P_Bd = gsl_matrix_alloc(6, 3),
                          !.m.BdT_P_Bd = gsl_matrix_alloc(3, 3),
                          !.m.R_plus_BdT_P_Bd = gsl_matrix_alloc(3, 3),
                          !.m.R_plus_BdT_P_Bd_inv = gsl_matrix_alloc(3, 3)]
           ELSE s
      P_Ad == gsl_blas_dgemm("NoTrans", "NoTrans", Scalar(1, 1), a.c.P, a.c.A_d,
                             Scalar(0, 1), a.m.P_Ad)
      BdT_P_Ad == gsl_blas_dgemm("Trans", "NoTrans", Scalar(1, 1), a.c.B_d, P_Ad,
                                 Scalar(0, 1), a.m.BdT_P_Ad)
      P_Bd == gsl_blas_dgemm("NoTrans", "NoTrans", Scalar(1, 1), a.c.P, a.c.B_d,
                             Scalar(0, 1), a.m.P_Bd)
      BdT_P_Bd == gsl_blas_dgemm("Trans", "NoTrans", Scalar(1, 1), a.c.B_d, P_Bd,
                                 Scalar(0, 1), a.m.BdT_P_Bd)
      R_plus_BdT_P_Bd == gsl_matrix_add(gsl_matrix_memcpy(a.c.R), BdT_P_Bd)
      R_plus_BdT_P_Bd_inv == inverse(R_plus_BdT_P_Bd)
  IN  [a EXCEPT !.m.P_Ad = P_Ad,
                !.m.BdT_P_Ad = BdT_P_Ad,
                !.m.P_Bd = P_Bd,
                !.m.BdT_P_Bd = BdT_P_Bd,
                !.m.R_plus_BdT_P_Bd = R_plus_BdT_P_Bd,
                !.m.R_plus_BdT_P_Bd_inv = R_plus_BdT_P_Bd_inv,
                !.c.K = gsl_blas_dgemm("NoTrans", "NoTrans", Scalar(1, 1), R_plus_BdT_P_Bd_inv,
                                       BdT_P_Ad, Scalar(0, 1), a.c.K)]

\* u = -K*x
sendMTInputs(s) ==
  [s EXCEPT !.c.u = gsl_blas_dgemv(Scalar(-1, 1), s.c.K, Numbers(s.c.x), Scalar(0, 1), s.c.u)]

-----------------------------------------------------------------------------
(* The periodic driver: calls on one Controller, one after the other *)

\* cycles the driver runs in pipeline order
MaxCycles == 2
\* calls the driver makes when it calls in any order
MaxOps == 4

\* magnetic field readings (unit 1e-5 T), the zero field among them
FieldInputs == { <<0, 0, 0>>, <<2, 1, 3>>, <<0, 0, 1>> }

\* angular position and velocity readings: at rest, and at the nominal orbit rate
StateInputs == { <<0, 0, 0, 0, 0, 0>>, <<0, 0, 0, 0, -MEAN_MOTION, 0>> }

Functions ==
  <<"updateSensors", "computeBMatrices", "computePMatrix", "computeGainMatrix", "sendMTInputs">>

\* the Controller after initializeController; what gsl_vector_alloc left in x and b is
\* any value
InitSeq ==
  /\ ParkNR
  /\ ParkMT
  /\ tcntl = <<>> /\ tpc = <<>> /\ overlap = FALSE
  /\ \E b0 \in FieldInputs : \E x0 \in StateInputs :
        cntl = [initializeController EXCEPT !.b = b0, !.x = x0]
  /\ mem = StaticsAtStart
  /\ mode \in {"cycle", "any"}
  /\ done = "initializeController"
  /\ ops = 0
  /\ bHist = <<>>

\* the driver may call Functions[k] now
MayCall(k) ==
  /\ mode \in {"cycle", "any"}
  /\ ops < (IF mode = "cycle" THEN Len(Functions) * MaxCycles ELSE MaxOps)
  /\ mode = "cycle" =>
        IF k = 1 THEN done \in {"initializeController", Functions[Len(Functions)]}
        ELSE done = Functions[k - 1]

\* Functions[k] returns leaving the Controller and the statics as in s2
Returns(k, s2) ==
  /\ cntl' = s2.c
  /\ mem' = s2.m
  /\ done' = Functions[k]
  /\ ops' = ops + 1
  /\ UNCHANGED <<mode, nrvars, K, x, u, mtpc, concvars>>

updateSensors ==
  /\ MayCall(1)
  /\ \E reading \in StateInputs : \E field \in FieldInputs :
        Returns(1, [c |-> [cntl EXCEPT !.x = [reading EXCEPT ![5] = reading[5] + MEAN_MOTION],
                                       !.b = field],
                    m |-> mem])
  /\ UNCHANGED <<bHist, magnetorquer>>

computeBMatrices_call ==
  /\ MayCall(2)
  /\ Returns(2, computeBMatrices([c |-> cntl, m |-> mem]))
  /\ bHist' = Append(bHist, cntl.b)
  /\ UNCHANGED magnetorquer

computePMatrix_call ==
  /\ MayCall(3)
  /\ Returns(3, computePMatrix([c |-> cntl, m |-> mem]))
  /\ UNCHANGED <<bHist, magnetorquer>>

computeGainMatrix_call ==
  /\ MayCall(4)
  /\ Returns(4, computeGainMatrix([c |-> cntl, m |-> mem]))
  /\ UNCHANGED <<bHist, magnetorquer>>

\* u = -K*x, then setMagnetorquer(u[0], u[1], u[2])
sendMTInputs_call ==
  /\ MayCall(5)
  /\ Returns(5, sendMTInputs([c |-> cntl, m |-> mem]))
  /\ magnetorquer' = <<gsl_vector_get(cntl'.u, 0), gsl_vector_get(cntl'.u, 1),
                       gsl_vector_get(cntl'.u, 2)>>
  /\ UNCHANGED bHist

Next ==
  \/ updateSensors
  \/ computeBMatrices_call
  \/ computePMatrix_call
  \/ computeGainMatrix_call
  \/ sendMTInputs_call

Spec == InitSeq /\ [][Next]_vars

(* ---- claims about the sequential pipeline ---- *)

\* C1: every call of computeBMatrices with b = (0,0,0) ends in DegenerateInputError,
\* performs no division by b.b and leaves B_c and B_d as they were.
C1_ZeroFieldRejected ==
  [][(cntl.b = <<0, 0, 0>> /\ bHist' # bHist) =>
        /\ done' = "DegenerateInputError"
        /\ ~DividesByZero(mem'.quotient)
        /\ cntl'.B_c = cntl.B_c /\ cntl'.B_d = cntl.B_d]_vars

\* a Controller as initialised and statics as at program start, with field vector b
Fresh(b) == [c |-> [initializeController EXCEPT !.b = b], m |-> StaticsAtStart]

\* the Controller after the first cycle of a program whose field vector is b
FirstCycle(b) == computeGainMatrix(computePMatrix(computeBMatrices(Fresh(b)))).c

\* C5: whatever calls came before, a cycle yields the B_d, P and K that the first
\* cycle of a fresh program yields for the same b; and each function alone yields
\* what it yields on its first call for the same inputs (B_c, B_d from b; P from
\* B_d; K from P and B_d).
C5_OutputsDependOnInputsOnly ==
  /\ (mode = "cycle" /\ done \in {"computeGainMatrix", "sendMTInputs"}) =>
        /\ cntl.B_d = FirstCycle(cntl.b).B_d
        /\ cntl.P = FirstCycle(cntl.b).P
        /\ cntl.K = FirstCycle(cntl.b).K
  /\ done = "computeBMatrices" =>
        /\ cntl.B_c = computeBMatrices(Fresh(cntl.b)).c.B_c
        /\ cntl.B_d = computeBMatrices(Fresh(cntl.b)).c.B_d
  /\ done = "computePMatrix" =>
        cntl.P = computePMatrix([c |-> [initializeController EXCEPT !.B_d = cntl.B_d],
                                 m |-> StaticsAtStart]).c.P
  /\ done = "computeGainMatrix" =>
        cntl.K = computeGainMatrix([c |-> [initializeController EXCEPT !.B_d = cntl.B_d,
                                                                       !.P = cntl.P],
                                    m |-> StaticsAtStart]).c.K

\* the second cycle has computed its gain, for a field other than the first cycle's
C5_Witness ==
  /\ mode = "cycle" /\ done = "computeGainMatrix"
  /\ Len(bHist) = 2 /\ bHist[1] # bHist[2]
  /\ ~Mentions(cntl.K, "alloc")

TimeInvariantBlock == {"A_c", "A_d", "Q", "R", "J", "I_6", "Zero_6", "Zero_3"}

\* C6: after any sequence of calls A_c, A_d, Q, R, J, I_6, Zero_6 and Zero_3 hold what
\* initializeController left in them.
C6_TimeInvariantBlockKept ==
  mode \in {"cycle", "any"} =>
     \A f \in TimeInvariantBlock : cntl[f] = initializeController[f]

\* all five functions have been called, in both driver modes' reach
C6_Witness ==
  /\ ops >= Len(Functions) /\ done = "sendMTInputs"
  /\ mem.negativeQ # NullPtr /\ mem.P_Ad # NullPtr
  /\ \A f \in TimeInvariantBlock : cntl[f] = initializeController[f]

\* entry (i, j) of the bmat stored in the Controller
bmatEntry(i, j) == cntl.bmat[3][3 * (i - 1) + j]

\* C7: the bmat computeBMatrices stores is skew-symmetric with a zero diagonal, and
\* bmat * b = (0,0,0).
C7_CrossProductMatrix ==
  done = "computeBMatrices" =>
     /\ \A i \in 1..3 : \A j \in 1..3 : bmatEntry(j, i) = -bmatEntry(i, j)
     /\ \A i \in 1..3 :
           bmatEntry(i, 1) * cntl.b[1] + bmatEntry(i, 2) * cntl.b[2]
             + bmatEntry(i, 3) * cntl.b[3] = 0

\* computeBMatrices has stored the cross-product matrix of b = (2,1,3)
C7_Witness ==
  /\ done = "computeBMatrices"
  /\ cntl.b = <<2, 1, 3>>
  /\ cntl.bmat = Numbers(<<0, -3, 1,  3, 0, -2,  -1, 2, 0>>)

\* a cycle with b = (0,0,0) leaves a gain K computed from the division by zero
ZeroFieldReachesGain ==
  /\ done = "computeGainMatrix" /\ cntl.b = <<0, 0, 0>> /\ DividesByZero(cntl.K)

-----------------------------------------------------------------------------
(* Two invocations of the pipeline that interleave.

   Each invocation has its own Controller and runs updateSensors, computeBMatrices
   and computePMatrix once; the function-local statics are the one copy in mem.
   There is no lock in the program: after any statement of one invocation the other
   may run. *)

Threads == {1, 2}

\* field readings of the interleaved invocations (unit 1e-5 T)
ConcFieldInputs == { <<2, 1, 3>>, <<0, 0, 1>> }

InitConc ==
  /\ ParkNR
  /\ ParkMT
  /\ cntl = <<>> /\ mode = "off" /\ done = "off" /\ ops = 0 /\ bHist = <<>>
  /\ mem = StaticsAtStart
  /\ tcntl = [t \in Threads |-> initializeController]
  /\ tpc = [t \in Threads |-> "updateSensors"]
  /\ overlap = FALSE

\* positions after the first-call test of a function and before its return
Inside ==
  { "B_alloc", "B_constants", "B_quotient", "B_Bc", "B_Bd",
    "P_alloc", "P_constants", "P_L", "P_NL", "P_H", "P_newton", "P_P" }

\* what invocation t works on: its Controller and the shared statics
View(t) == [c |-> tcntl[t], m |-> mem]

\* invocation t moves to position to, leaving its Controller and the statics as in s2
Goto(t, to, s2) ==
  /\ tpc' = [tpc EXCEPT ![t] = to]
  /\ tcntl' = [tcntl EXCEPT ![t] = s2.c]
  /\ mem' = s2.m
  /\ overlap' = (overlap \/ (tpc[t] # "updateSensors" /\ \E o \in Threads \ {t} : tpc[o] \in Inside))
  /\ UNCHANGED <<nrvars, mtvars, seqvars>>

conc_updateSensors(t) ==
  /\ tpc[t] = "updateSensors"
  /\ \E field \in ConcFieldInputs :
        Goto(t, "B_guard", [c |-> [tcntl[t] EXCEPT !.x = <<0, 0, 0, 0, MEAN_MOTION, 0>>,
                                                   !.b = field],
                            m |-> mem])

\* if (!J_inv)
conc_computeBMatrices_guard(t) ==
  /\ tpc[t] = "B_guard"
  /\ Goto(t, IF computeBMatrices_firstCall(View(t)) THEN "B_alloc" ELSE "B_quotient", View(t))

conc_computeBMatrices_alloc(t) ==
  /\ tpc[t] = "B_alloc"
  /\ Goto(t, "B_constants", computeBMatrices_alloc(View(t)))

conc_computeBMatrices_constants(t) ==
  /\ tpc[t] = "B_constants"
  /\ Goto(t, "B_quotient", computeBMatrices_constants(View(t)))

conc_computeBMatrices_quotient(t) ==
  /\ tpc[t] = "B_quotient"
  /\ Goto(t, "B_Bc", computeBMatrices_quotient(View(t)))

conc_computeBMatrices_Bc(t) ==
  /\ tpc[t] = "B_Bc"
  /\ Goto(t, "B_Bd", computeBMatrices_Bc(View(t)))

conc_computeBMatrices_Bd(t) ==
  /\ tpc[t] = "B_Bd"
  /\ Goto(t, "P_guard", computeBMatrices_Bd(View(t)))

\* if (!negativeQ)
conc_computePMatrix_guard(t) ==
  /\ tpc[t] = "P_guard"
  /\ Goto(t, IF computePMatrix_firstCall(View(t)) THEN "P_alloc" ELSE "P_L", View(t))

conc_computePMatrix_alloc(t) ==
  /\ tpc[t] = "P_alloc"
  /\ Goto(t, "P_constants", computePMatrix_alloc(View(t)))

conc_computePMatrix_constants(t) ==
  /\ tpc[t] = "P_constants"
  /\ Goto(t, "P_L", computePMatrix_constants(View(t)))

conc_computePMatrix_L(t) ==
  /\ tpc[t] = "P_L"
  /\ Goto(t, "P_NL", computePMatrix_L(View(t)))

conc_computePMatrix_NL(t) ==
  /\ tpc[t] = "P_NL"
  /\ Goto(t, "P_H", computePMatrix_NL(View(t)))

conc_computePMatrix_H(t) ==
  /\ tpc[t] = "P_H"
  /\ Goto(t, "P_newton", computePMatrix_H(View(t)))

conc_runNewtonRaphsonProcess(t) ==
  /\ tpc[t] = "P_newton"
  /\ Goto(t, "P_P", runNewtonRaphsonProcess(View(t)))

conc_computePMatrix_P(t) ==
  /\ tpc[t] = "P_P"
  /\ Goto(t, "returned", computePMatrix_P(View(t)))

NextConc ==
  \E t \in Threads :
     \/ conc_updateSensors(t)
     \/ conc_computeBMatrices_guard(t)
     \/ conc_computeBMatrices_alloc(t)
     \/ conc_computeBMatrices_constants(t)
     \/ conc_computeBMatrices_quotient(t)
     \/ conc_computeBMatrices_Bc(t)
     \/ conc_computeBMatrices_Bd(t)
     \/ conc_computePMatrix_guard(t)
     \/ conc_computePMatrix_alloc(t)
     \/ conc_computePMatrix_constants(t)
     \/ conc_computePMatrix_L(t)
     \/ conc_computePMatrix_NL(t)
     \/ conc_computePMatrix_H(t)
     \/ conc_runNewtonRaphsonProcess(t)
     \/ conc_computePMatrix_P(t)

SpecConc == InitConc /\ [][NextConc]_vars

(* ---- claim about interleaved invocations ---- *)

\* the Controller after computeBMatrices and computePMatrix run alone with field b
Sequential(b) == computePMatrix(computeBMatrices(Fresh(b))).c

\* C10: the functions are not reentrant.  The first-call guard pointer is assigned
\* by the allocation, before the constants are computed: while an invocation stands
\* between the two, J_inv (negativeQ) is already non-null for any other invocation
\* that tests it.  Only interleaving does harm: an invocation returns the B_d and P
\* of its sequential run as long as no statement of a function ran while the other
\* invocation was inside a function.  The bad state interleaving reaches is
\* C10_BadState.
C10_NotReentrant ==
  \A t \in DOMAIN tpc :
     /\ tpc[t] = "B_constants" => mem.J_inv # NullPtr
     /\ tpc[t] = "P_constants" => mem.negativeQ # NullPtr
     /\ (tpc[t] = "returned" /\ ~overlap) =>
           /\ tcntl[t].B_d = Sequential(tcntl[t].b).B_d
           /\ tcntl[t].P = Sequential(tcntl[t].b).P

\* both invocations have returned; one skipped the initialisation and computed its
\* B_d from a transform that was allocated and not yet computed; the other computed
\* the B_d of its own field but returned as its P the P of the other invocation,
\* whose L overwrote its own, not the P it computes when it runs alone
C10_BadState ==
  \E t1 \in DOMAIN tpc : \E t2 \in DOMAIN tpc :
     /\ overlap
     /\ t1 # t2 /\ tpc[t1] = "returned" /\ tpc[t2] = "returned"
     /\ tcntl[t1].b # tcntl[t2].b
     /\ tcntl[t2].B_d = gsl_blas_dgemm("NoTrans", "NoTrans", Scalar(1, 1), gsl_matrix_alloc(6, 6),
                                       tcntl[t2].B_c, Scalar(0, 1), tcntl[t2].B_d)
     /\ tcntl[t1].B_d = Sequential(tcntl[t1].b).B_d
     /\ tcntl[t1].P # Sequential(tcntl[t1].b).P
     /\ tcntl[t1].P = tcntl[t2].P

=============================================================================
